---- MODULE Spec2Model ----
(***************************************************************************)
(* StateSafe: the transition engine of src/StateSafe.ts (classes           *)
(* TransitionWrapper and FSM).  Event names, method names and state names  *)
(* are strings.  nameConvert works on the spelling of a name, a sequence   *)
(* of one-character strings, so that split, toLowerCase and toUpperCase    *)
(* are computed and not assumed.                                           *)
(***************************************************************************)
EXTENDS Integers, Sequences, FiniteSets, TLC

\* ------------------------------------------------------------------------
\* Bounds and input universes
\* ------------------------------------------------------------------------

\* Largest number of explicit hooks registered on one engine (all phases).
MaxHooks == 2

\* JavaScript null, as held by _state and _fromState before the seed.
Null == "null"

\* JavaScript undefined, the result of a property lookup that finds nothing.
Undefined == [kind |-> "undefined", name |-> ""]

\* State names handed to transition and state (test/testStateSafe.ts).
StateNames == {"GAS", "LIQUID"}

\* The argument of state(): a registered or unregistered name, or the empty
\* string, which is falsy in `if (newState)` as the omitted argument is.
SeedArgs == StateNames \cup {"illegalState", ""}

\* Event names handed to transition/fire/before/on/after; "default" is one
\* of the reserved words.  They convert to the method names condense, freeze
\* and default, which no member of the class carries.
EventNames == {"condense", "freeze", "default"}

\* Two event names that nameConvert gives the same method name, condense.
ShortcutEvents == {"condense", "Condense"}

AllEvents == EventNames \cup ShortcutEvents

\* State and event names of the registries that states() and events() are
\* called on (test/testStateSafe.ts: GAS, LIQUID, SOLID).
ListStates == {"GAS", "LIQUID", "SOLID"}
ListEvents == {"freeze", "condense", "Condense"}

\* Methods the application subclass declares on the instance (the Matter
\* class of test/testLogMessage.ts, with all three derived-convention
\* methods for condense and none for freeze).
ClassMethods == {"beforeCondense", "onCondense", "afterCondense"}

\* The spelling of every name that is converted or is the result of a
\* conversion.
spelling ==
    [name \in AllEvents \cup ListStates \cup ClassMethods \cup {"show", "SHOW", "hide"} \cup
               {"beforeFreeze", "onFreeze", "afterFreeze",
                "beforeDefault", "onDefault", "afterDefault"} |->
        CASE name = "condense"       -> <<"c","o","n","d","e","n","s","e">>
          [] name = "Condense"       -> <<"C","o","n","d","e","n","s","e">>
          [] name = "GAS"            -> <<"G","A","S">>
          [] name = "show"           -> <<"s","h","o","w">>
          [] name = "SHOW"           -> <<"S","H","O","W">>
          [] name = "hide"           -> <<"h","i","d","e">>
          [] name = "LIQUID"         -> <<"L","I","Q","U","I","D">>
          [] name = "SOLID"          -> <<"S","O","L","I","D">>
          [] name = "freeze"         -> <<"f","r","e","e","z","e">>
          [] name = "default"        -> <<"d","e","f","a","u","l","t">>
          [] name = "beforeCondense" -> <<"b","e","f","o","r","e","C","o","n","d","e","n","s","e">>
          [] name = "onCondense"     -> <<"o","n","C","o","n","d","e","n","s","e">>
          [] name = "afterCondense"  -> <<"a","f","t","e","r","C","o","n","d","e","n","s","e">>
          [] name = "beforeFreeze"   -> <<"b","e","f","o","r","e","F","r","e","e","z","e">>
          [] name = "onFreeze"       -> <<"o","n","F","r","e","e","z","e">>
          [] name = "afterFreeze"    -> <<"a","f","t","e","r","F","r","e","e","z","e">>
          [] name = "beforeDefault"  -> <<"b","e","f","o","r","e","D","e","f","a","u","l","t">>
          [] name = "onDefault"      -> <<"o","n","D","e","f","a","u","l","t">>
          [] name = "afterDefault"   -> <<"a","f","t","e","r","D","e","f","a","u","l","t">>]

\* The name that is spelled chars.
named(chars) == CHOOSE name \in DOMAIN spelling : spelling[name] = chars

\* The prefixes fire joins to the event name to derive a method name.
before_ == <<"b","e","f","o","r","e","_">>
on_     == <<"o","n","_">>
after_  == <<"a","f","t","e","r","_">>

\* The most log(data) calls made in one behaviour.
MaxLines == 3

\* Files a test logs to.
FilePaths == {"a.log", "b.log"}

\* What a caller passes to logTo: the path of a file, or the empty string.
LogPaths == FilePaths \cup {""}

\* Values of the environment variables STATE and state; '' stands for a
\* variable that is not set (both are falsy).
EnvValues == {"", "show", "SHOW", "hide"}

\* The environments a traced engine runs in.
TraceEnvs ==
    {[STATE |-> v, state |-> ""] : v \in EnvValues} \cup {[STATE |-> "", state |-> "show"]}

\* The events of a traced engine.
TraceEvents == {"condense", "freeze"}

\* The event names under which hooks are registered.
HookEvents == {"condense"}

\* What a caller passes as callbackOrMethod to before/on/after: an anonymous
\* function, a name that resolves to nothing, or the name of a declared
\* method, which is the derived-convention name of that phase
\* (beforeCondense, onCondense, afterCondense).
Callbacks(conventionName) ==
    {[kind |-> "function", name |-> "f"],
     [kind |-> "string", name |-> "noSuchMethod"],
     [kind |-> "string", name |-> conventionName]}

\* ------------------------------------------------------------------------
\* TransitionWrapper
\* ------------------------------------------------------------------------

reservedWords == {
    "break", "case", "catch", "class", "const", "continue", "debugger",
    "default", "delete", "do", "else", "enum", "export", "extends", "false",
    "final", "finally", "for", "function", "if", "implements", "import",
    "in", "instanceof", "interface", "let", "module", "new", "null",
    "package", "private", "protected", "public", "return", "static", "super",
    "switch", "this", "throw", "try", "true", "type", "typeof", "var",
    "void", "while", "with", "yield", "as", "any", "boolean", "byte", "char",
    "double", "int", "long", "object", "short", "string", "undefined",
    "declare", "namespace", "require", "from", "extends", "implements",
    "interface", "keyof", "module", "typeof", "get", "set"
}

\* validateEvent without the denylist.
validateEvent_acceptsAll(event) == TRUE

validateEvent(event) == event \notin reservedWords

\* A transition whose target was lost.
TransitionWrapper_noTarget(from, to, event) ==
    [from |-> from, to |-> Null, event |-> event]

\* new TransitionWrapper(from, to, event)
TransitionWrapper(from, to, event) ==
    IF validateEvent(event)
    THEN [from |-> from, to |-> to, event |-> event]
    ELSE [from |-> "", to |-> "", event |-> ""]

\* ------------------------------------------------------------------------
\* String helpers used by nameConvert
\* ------------------------------------------------------------------------

LowerCase == <<"a","b","c","d","e","f","g","h","i","j","k","l","m",
               "n","o","p","q","r","s","t","u","v","w","x","y","z">>
UpperCase == <<"A","B","C","D","E","F","G","H","I","J","K","L","M",
               "N","O","P","Q","R","S","T","U","V","W","X","Y","Z">>

toUpperCase(c) ==
    IF \E i \in 1..26 : LowerCase[i] = c
    THEN UpperCase[CHOOSE i \in 1..26 : LowerCase[i] = c]
    ELSE c

toLowerCase(c) ==
    IF \E i \in 1..26 : UpperCase[i] = c
    THEN LowerCase[CHOOSE i \in 1..26 : UpperCase[i] = c]
    ELSE c

\* String.prototype.charCodeAt for a letter or "_".
charCodeAt(c) ==
    IF \E i \in 1..26 : UpperCase[i] = c
    THEN 64 + (CHOOSE i \in 1..26 : UpperCase[i] = c)
    ELSE IF \E i \in 1..26 : LowerCase[i] = c
         THEN 96 + (CHOOSE i \in 1..26 : LowerCase[i] = c)
         ELSE 95

\* a < b for two strings, as Array.prototype.sort without a compare function
\* orders them: by UTF-16 code units, a proper prefix first.
lessThan(a, b) ==
    \E k \in 1..(Len(a) + 1) :
        /\ k <= Len(b)
        /\ \A j \in 1..(k - 1) : a[j] = b[j]
        /\ k = Len(a) + 1 \/ charCodeAt(a[k]) < charCodeAt(b[k])

RECURSIVE split(_)
split(s) ==
    IF \E i \in 1..Len(s) : s[i] = "_"
    THEN LET i == CHOOSE k \in 1..Len(s) :
                     s[k] = "_" /\ \A j \in 1..(k-1) : s[j] # "_"
         IN  <<SubSeq(s, 1, i-1)>> \o split(SubSeq(s, i+1, Len(s)))
    ELSE <<s>>

RECURSIVE join(_)
join(parts) == IF parts = <<>> THEN <<>> ELSE Head(parts) \o join(Tail(parts))

capitalize(part) ==
    IF part = <<>> THEN <<>>
    ELSE <<toUpperCase(part[1])>> \o SubSeq(part, 2, Len(part))

nameConvert(inputString) ==
    LET splitParts     == split(inputString)
        firstPart      == Head(splitParts)
        remainingParts == Tail(splitParts)
        convertedParts == [i \in 1..Len(remainingParts) |-> capitalize(remainingParts[i])]
    IN  [i \in 1..Len(firstPart) |-> toLowerCase(firstPart[i])] \o join(convertedParts)

\* this.nameConvert(event), for each event name of the universe.
shortcutName == [event \in AllEvents |-> named(nameConvert(spelling[event]))]

\* this.nameConvert(`before_${eventName}`), ... for each prefix and event name.
derivedName ==
    [prefix \in {before_, on_, after_} |->
        [eventName \in AllEvents |-> named(nameConvert(prefix \o spelling[eventName]))]]


\* ------------------------------------------------------------------------
\* FSM: fields
\* ------------------------------------------------------------------------

VARIABLES
    _state,            \* FSM._state
    _transitionName,   \* FSM._transitionName
    _fromState,        \* FSM._fromState
    _toState,          \* FSM._toState
    _nextState,        \* FSM._nextState
    transitions,       \* FSM.transitions, in insertion order
    uniqueStates,      \* FSM.uniqueStates, a Set in insertion order
    uniqueEvents,      \* FSM.uniqueEvents, a Set in insertion order
    onHooks,           \* FSM.onHooks: event name -> list ([] when the key is absent)
    afterHooks,        \* FSM.afterHooks
    beforeHooks,       \* FSM.beforeHooks
    shortcuts,         \* own properties installed by transition(): method name -> event
    lastCall,          \* the call made last: operation, arguments, returned value, and
                       \* the fields and tables as they were when it was made
    hookLog            \* the callables invoked by the last call, in order, with what they saw

\* ------------------------------------------------------------------------
\* StateSafe: fields of the log queue, and what it writes to
\* ------------------------------------------------------------------------

VARIABLES
    logFileLocation,   \* StateSafe.logFileLocation ('' when no file is set)
    useColor,          \* StateSafe.useColor
    logQueue,          \* StateSafe.logQueue
    writing,           \* StateSafe.writing
    appends,           \* the fs.promises.appendFile calls not settled yet, each awaited
                       \* by one running processLogQueue()
    files,             \* path -> the lines appended to the file, in order
    console,           \* the lines written with console.log, in order
    errors,            \* the messages whose failed append console.error reported
    emitted,           \* the number of log(data) calls made so far
    sinkAt,            \* history: logFileLocation as it was at each log(data) call
    env                \* process.env: the values of STATE and state

fields   == <<_state, _transitionName, _fromState, _toState, _nextState>>
registry == <<transitions, uniqueStates, uniqueEvents, shortcuts>>
hooks    == <<onHooks, afterHooks, beforeHooks>>
fsmVars  == <<_state, _transitionName, _fromState, _toState, _nextState,
              transitions, uniqueStates, uniqueEvents,
              onHooks, afterHooks, beforeHooks, shortcuts, lastCall, hookLog>>
logVars  == <<logFileLocation, useColor, logQueue, writing, appends, files, console,
              errors, emitted, sinkAt, env>>
vars     == <<fsmVars, logVars>>

Range(seq) == {seq[i] : i \in 1..Len(seq)}

\* An add that adds nothing.
SetAdd_nothing(set, x) == set

\* An add that drops what the set held.
SetAdd_replace(set, x) == <<x>>

\* Set.prototype.add on an insertion-ordered Set.
SetAdd(set, x) == IF x \in Range(set) THEN set ELSE Append(set, x)

\* Set.prototype.has
\* A set that reports every name as a member.
SetHas_always(set, x) == TRUE

SetHas(set, x) == x \in Range(set)

\* The instance as a caller can observe it between two calls.
Snapshot ==
    [state |-> _state, transitionName |-> _transitionName, fromState |-> _fromState,
     toState |-> _toState, nextState |-> _nextState,
     transitions |-> transitions, uniqueStates |-> uniqueStates,
     uniqueEvents |-> uniqueEvents, shortcuts |-> shortcuts,
     onHooks |-> onHooks, afterHooks |-> afterHooks, beforeHooks |-> beforeHooks,
     emitted |-> emitted]

Call(op, args, ret) == [op |-> op, args |-> args, ret |-> ret, pre |-> Snapshot]

\* The fields of a new instance.
Fresh ==
    /\ logFileLocation = ""
    /\ useColor = TRUE
    /\ logQueue = <<>>
    /\ writing = FALSE
    /\ appends = <<>>
    /\ files = [path \in FilePaths |-> <<>>]
    /\ console = <<>>
    /\ errors = <<>>
    /\ emitted = 0
    /\ sinkAt = <<>>
    /\ _state = Null
    /\ _transitionName = ""
    /\ _fromState = ""
    /\ _toState = ""
    /\ _nextState = ""
    /\ transitions = <<>>
    /\ uniqueStates = <<>>
    /\ uniqueEvents = <<>>
    /\ onHooks = [e \in AllEvents |-> <<>>]
    /\ afterHooks = [e \in AllEvents |-> <<>>]
    /\ beforeHooks = [e \in AllEvents |-> <<>>]
    /\ shortcuts = <<>>
    /\ lastCall = Call("new", <<>>, "void")
    /\ hookLog = <<>>

\* A new instance in a process with neither STATE nor state set.
Init == Fresh /\ env = [STATE |-> "", state |-> ""]

\* A new instance in a process with STATE or state set to some value.
InitTrace == Fresh /\ env \in TraceEnvs

\* ------------------------------------------------------------------------
\* FSM.transition
\* ------------------------------------------------------------------------

\* transition() without the check for a used (from,to) pair.
somePair_never(from, to) == FALSE

\* this.transitions.some(t => t.data.from === from && t.data.to === to)
somePair(from, to) ==
    \E i \in 1..Len(transitions) :
        transitions[i].from = from /\ transitions[i].to = to

\* transition() without the check for a used event name.
someEvent_never(event) == FALSE

\* this.transitions.some(t => t.data.event === event)
someEvent(event) ==
    \E i \in 1..Len(transitions) : transitions[i].event = event

\* (this as any)[methodName] = () => this.fire(event)
installShortcut(methodName, event) ==
    [m \in (DOMAIN shortcuts) \cup {methodName} |->
        IF m = methodName THEN event ELSE shortcuts[m]]

transition(event, from, to) ==
    /\ IF validateEvent(event) /\ ~somePair(from, to) /\ ~someEvent(event)
       THEN /\ transitions' = Append(transitions, TransitionWrapper(from, to, event))
            /\ uniqueStates' = SetAdd(SetAdd(uniqueStates, from), to)
            /\ uniqueEvents' = SetAdd(uniqueEvents, event)
            /\ shortcuts' = installShortcut(shortcutName[event], event)
       ELSE UNCHANGED registry
    /\ lastCall' = Call("transition", <<event, from, to>>, "void")
    /\ hookLog' = <<>>
    /\ UNCHANGED <<fields, hooks>>
    /\ UNCHANGED logVars

\* ------------------------------------------------------------------------
\* FSM.state, FSM.states, FSM.events
\* ------------------------------------------------------------------------

\* state() without the `this._state === null` test.
canSeed_reseeds(newState) == SetHas(uniqueStates, newState)

\* state() without the `this.uniqueStates.has(newState)` test.
canSeed_anyName(newState) == _state = Null

\* state() without either test.
canSeed_always(newState) == TRUE

canSeed(newState) == _state = Null /\ SetHas(uniqueStates, newState)

state(newState) ==
    /\ IF newState # ""
       THEN /\ _state' = IF canSeed(newState) THEN newState ELSE _state
            /\ lastCall' = Call("state", <<newState>>, Null)
       ELSE /\ UNCHANGED _state
            /\ lastCall' = Call("state", <<newState>>, _state)
    /\ hookLog' = <<>>
    /\ UNCHANGED <<_transitionName, _fromState, _toState, _nextState, registry, hooks>>
    /\ UNCHANGED logVars

\* lessThan for the names handed to states() and events().
sortsBefore ==
    [a \in ListStates \cup ListEvents |->
        [b \in ListStates \cup ListEvents |-> lessThan(spelling[a], spelling[b])]]

\* Array.from(set) returned as it is, in insertion order.
sort_asInserted(array) == array

\* Array.prototype.sort(): the least element, then the rest sorted.
RECURSIVE sort(_)
sort(array) ==
    IF array = <<>>
    THEN <<>>
    ELSE LET least == CHOOSE i \in 1..Len(array) :
                          \A j \in 1..Len(array) : ~sortsBefore[array[j]][array[i]]
         IN  <<array[least]>> \o
             sort([k \in 1..(Len(array) - 1) |->
                      IF k < least THEN array[k] ELSE array[k + 1]])

states ==
    /\ lastCall' = Call("states", <<>>, sort(uniqueStates))
    /\ hookLog' = <<>>
    /\ UNCHANGED <<fields, registry, hooks>>
    /\ UNCHANGED logVars

events ==
    /\ lastCall' = Call("events", <<>>, sort(uniqueEvents))
    /\ hookLog' = <<>>
    /\ UNCHANGED <<fields, registry, hooks>>
    /\ UNCHANGED logVars

\* ------------------------------------------------------------------------
\* Property lookup on the instance and hook registration
\* ------------------------------------------------------------------------

\* (this as any)[name]: an own property installed by transition() shadows a
\* method of the class.
Lookup(name) ==
    IF name \in DOMAIN shortcuts
    THEN [kind |-> "shortcut", name |-> shortcuts[name]]
    ELSE IF name \in ClassMethods \cup {"infoMsg"}
         THEN [kind |-> "method", name |-> name]
         ELSE Undefined

\* typeof x === 'function'
isFunction(x) == x.kind \in {"function", "method", "shortcut"}

TotalHooks ==
    LET n(table) == Len(table["condense"]) + Len(table["freeze"]) + Len(table["default"])
    IN  n(beforeHooks) + n(onHooks) + n(afterHooks)

\* The push made without the `typeof method === 'function'` test.
pushHook_unchecked(list, callbackOrMethod) ==
    Append(list, IF callbackOrMethod.kind = "function"
                 THEN callbackOrMethod
                 ELSE Lookup(callbackOrMethod.name))

\* The list after `push(callbackOrMethod.bind(this))` / `push(method.bind(this))`,
\* or the list as it was when the name does not resolve to a function.
pushHook(list, callbackOrMethod) ==
    IF callbackOrMethod.kind = "function"
    THEN Append(list, callbackOrMethod)
    ELSE LET method == Lookup(callbackOrMethod.name)
         IN  IF isFunction(method) THEN Append(list, method) ELSE list

\* `if (onMethod === callbackOrMethod) return;` of FSM.before and FSM.on
isConventionName(prefix, eventName, callbackOrMethod) ==
    /\ callbackOrMethod.kind = "string"
    /\ callbackOrMethod.name = derivedName[prefix][eventName]

after(eventName, callbackOrMethod) ==
    /\ TotalHooks < MaxHooks
    /\ afterHooks' = [afterHooks EXCEPT ![eventName] = pushHook(@, callbackOrMethod)]
    /\ lastCall' = Call("after", <<eventName, callbackOrMethod>>, "void")
    /\ hookLog' = <<>>
    /\ UNCHANGED <<fields, registry, onHooks, beforeHooks>>
    /\ UNCHANGED logVars

on(eventName, callbackOrMethod) ==
    /\ TotalHooks < MaxHooks
    /\ onHooks' = IF isConventionName(on_, eventName, callbackOrMethod)
                  THEN onHooks
                  ELSE [onHooks EXCEPT ![eventName] = pushHook(@, callbackOrMethod)]
    /\ lastCall' = Call("on", <<eventName, callbackOrMethod>>, "void")
    /\ hookLog' = <<>>
    /\ UNCHANGED <<fields, registry, afterHooks, beforeHooks>>
    /\ UNCHANGED logVars

\* before() refusing a hook for an event that no transition carries yet.
before_registeredOnly(eventName, callbackOrMethod) ==
    /\ TotalHooks < MaxHooks
    /\ beforeHooks' = IF \/ isConventionName(before_, eventName, callbackOrMethod)
                         \/ ~SetHas(uniqueEvents, eventName)
                      THEN beforeHooks
                      ELSE [beforeHooks EXCEPT ![eventName] = pushHook(@, callbackOrMethod)]
    /\ lastCall' = Call("before", <<eventName, callbackOrMethod>>, "void")
    /\ hookLog' = <<>>
    /\ UNCHANGED <<fields, registry, onHooks, afterHooks>>
    /\ UNCHANGED logVars

before(eventName, callbackOrMethod) ==
    /\ TotalHooks < MaxHooks
    /\ beforeHooks' = IF isConventionName(before_, eventName, callbackOrMethod)
                      THEN beforeHooks
                      ELSE [beforeHooks EXCEPT ![eventName] = pushHook(@, callbackOrMethod)]
    /\ lastCall' = Call("before", <<eventName, callbackOrMethod>>, "void")
    /\ hookLog' = <<>>
    /\ UNCHANGED <<fields, registry, onHooks, afterHooks>>
    /\ UNCHANGED logVars

\* ------------------------------------------------------------------------
\* StateSafe.logTo, StateSafe.log, StateSafe.processLogQueue
\* ------------------------------------------------------------------------

\* logTo without `this.useColor = false`.
logTo_keepsColor(filePath) ==
    /\ logFileLocation' = filePath
    /\ UNCHANGED <<useColor, logQueue, writing, appends, files, console, errors, emitted, sinkAt, env>>
    /\ lastCall' = Call("logTo", <<filePath>>, "void")
    /\ hookLog' = <<>>
    /\ UNCHANGED <<fields, registry, hooks>>

logTo(filePath) ==
    /\ useColor' = FALSE
    /\ logFileLocation' = filePath
    /\ UNCHANGED <<logQueue, writing, appends, files, console, errors, emitted, sinkAt, env>>
    /\ lastCall' = Call("logTo", <<filePath>>, "void")
    /\ hookLog' = <<>>
    /\ UNCHANGED <<fields, registry, hooks>>

\* The test of log() that never starts a processLogQueue().
idle_never(flag) == FALSE

\* The test of log() that starts a processLogQueue() whatever the flag says.
idle_always(flag) == TRUE

\* `if (!this.writing)`
idle(flag) == ~flag

\* Array.prototype.pop in the place of shift: the message added last.
shift_last(queue) ==
    [message |-> queue[Len(queue)], rest |-> SubSeq(queue, 1, Len(queue) - 1)]

\* `const message = this.logQueue.shift()`: the message taken and the queue left.
shift(queue) == [message |-> Head(queue), rest |-> Tail(queue)]

\* fs.promises.appendFile(this.logFileLocation, message + '\n'), not settled yet.
appendFile(path, message) == [path |-> path, message |-> message]

\* The loop of processLogQueue() left after its first round.
hasMore_never(queue) == FALSE

\* `while (this.logQueue.length > 0)`
hasMore(queue) == queue # <<>>

\* The test of log() that takes no path for a file.
hasSink_never(path) == FALSE

\* The test of log() that takes every path, the empty one too, for a file.
hasSink_always(path) == TRUE

\* `if (this.logFileLocation)`
hasSink(path) == path # ""

\* The catch branch without its console.error.
report_silent(reported, message) == reported

\* `console.error(`Failed to write log to file ...`)` in the catch branch
report(reported, message) == Append(reported, message)

\* log(data), as infoMsg, safeMsg and criticalMsg call it; data is the
\* number of the call, which stands for the formatted text.  A
\* processLogQueue() that log starts runs up to its first await: it sets
\* writing, takes the first message out and starts the append.
logSteps(data) ==
    /\ data = emitted + 1
    /\ emitted' = data
    /\ sinkAt' = Append(sinkAt, logFileLocation)
    /\ IF hasSink(logFileLocation)
       THEN /\ LET pushed == Append(logQueue, data)
               IN  IF idle(writing)
                   THEN /\ writing' = TRUE
                        /\ logQueue' = shift(pushed).rest
                        /\ appends' = Append(appends,
                                          appendFile(logFileLocation, shift(pushed).message))
                   ELSE /\ logQueue' = pushed
                        /\ UNCHANGED <<writing, appends>>
            /\ UNCHANGED console
       ELSE /\ console' = Append(console, data)
            /\ UNCHANGED <<logQueue, writing, appends>>
    /\ UNCHANGED <<logFileLocation, useColor, files, errors, env>>

\* infoMsg / safeMsg / criticalMsg called by the application.
log(data) ==
    /\ logSteps(data)
    /\ lastCall' = Call("log", <<data>>, "void")
    /\ hookLog' = <<>>
    /\ UNCHANGED <<fields, registry, hooks>>

\* The append appends[i] settles, fulfilled (ok) or rejected, and the
\* processLogQueue() that awaits it runs on to its next await or to its end.
\* An append to the path '' is rejected.
processLogQueue(i, ok) ==
    /\ i \in 1..Len(appends)
    /\ ok => appends[i].path \in FilePaths
    /\ IF ok
       THEN /\ files' = [files EXCEPT ![appends[i].path] = Append(@, appends[i].message)]
            /\ UNCHANGED errors
       ELSE /\ errors' = report(errors, appends[i].message)
            /\ UNCHANGED files
    /\ IF hasMore(logQueue)
       THEN /\ logQueue' = shift(logQueue).rest
            /\ appends' = [appends EXCEPT
                               ![i] = appendFile(logFileLocation, shift(logQueue).message)]
            /\ UNCHANGED writing
       ELSE /\ writing' = FALSE
            /\ appends' = [j \in 1..(Len(appends) - 1) |->
                               IF j < i THEN appends[j] ELSE appends[j + 1]]
            /\ UNCHANGED logQueue
    /\ UNCHANGED <<logFileLocation, useColor, console, emitted, sinkAt, env>>
    /\ UNCHANGED fsmVars

\* ------------------------------------------------------------------------
\* FSM.fire
\* ------------------------------------------------------------------------

\* The find predicate without the `t.data.from === this._state` test.
matches_anyFrom(t, eventName) == t.event = eventName

\* this.transitions.find(t => t.data.event === eventName && t.data.from === this._state)
matches(t, eventName) == t.event = eventName /\ t.from = _state

find(eventName) ==
    IF \E i \in 1..Len(transitions) : matches(transitions[i], eventName)
    THEN transitions[CHOOSE i \in 1..Len(transitions) :
                        /\ matches(transitions[i], eventName)
                        /\ \A j \in 1..(i-1) : ~matches(transitions[j], eventName)]
    ELSE Undefined

\* One step of fire that a caller can observe: the invocation of a callable
\* (phase before, on or after; whether it was the derived-convention
\* callable; what it returned, for a before callable) or the assignment to
\* _state (phase commit), with what state(), transitionName(), fromState(),
\* toState() and nextState() report at that moment.
Invocation(phase, derived, hook, ret, st, ctx) ==
    [phase |-> phase, derived |-> derived, hook |-> hook, ret |-> ret,
     state |-> st, transitionName |-> ctx.transitionName, fromState |-> ctx.fromState,
     toState |-> ctx.toState, nextState |-> ctx.nextState]

\* `if (typeof hook === 'function') hook.call(this)` for the derived-convention name
callDerived(phase, prefix, eventName, ret, st, ctx) ==
    LET hook == Lookup(derivedName[prefix][eventName])
    IN  IF isFunction(hook) THEN <<Invocation(phase, TRUE, hook, ret, st, ctx)>> ELSE <<>>

\* every() calling all the hooks whatever they return.
everyCalls_all(rets) == Len(rets)

\* Array.prototype.every stops at the first callback that returns false:
\* the number of hooks it calls when the i-th hook would return rets[i].
everyCalls(rets) ==
    IF \E i \in 1..Len(rets) : ~rets[i]
    THEN CHOOSE i \in 1..Len(rets) : ~rets[i] /\ \A j \in 1..(i-1) : rets[j]
    ELSE Len(rets)

everyResult(rets) == \A i \in 1..Len(rets) : rets[i]

\* beforeHooks.every(hook => hook())
callBeforeHooks(list, rets, st, ctx) ==
    [i \in 1..everyCalls(rets) |-> Invocation("before", FALSE, list[i], rets[i], st, ctx)]

\* The list called from its last hook to its first.
invokeHooks_reversed(phase, list, st, ctx) ==
    [i \in 1..Len(list) |-> Invocation(phase, FALSE, list[Len(list) + 1 - i], TRUE, st, ctx)]

\* invokeOnHooks / invokeAfterHooks: hooks.forEach(hook => hook())
invokeHooks(phase, list, st, ctx) ==
    [i \in 1..Len(list) |-> Invocation(phase, FALSE, list[i], TRUE, st, ctx)]

\* The list called before the derived-convention callable.
phaseLog_listFirst(derivedLog, explicitLog) == explicitLog \o derivedLog

\* Within a phase fire calls the derived-convention callable, then the list.
phaseLog(derivedLog, explicitLog) == derivedLog \o explicitLog

\* `this._state = transition.data.to`
commit(to, ctx) == <<Invocation("commit", FALSE, Undefined, TRUE, to, ctx)>>

\* The after hooks called before `this._state = ...`.
fireLog_afterBeforeCommit(beforeLog, onLog, commitLog, afterLog) ==
    beforeLog \o onLog \o afterLog \o commitLog

\* The order of the four parts of a committing fire.
fireLog(beforeLog, onLog, commitLog, afterLog) ==
    beforeLog \o onLog \o commitLog \o afterLog

\* The guard without the result of the derived-convention before callable.
canProceed_ignoresDerived(canProceed1, canProceed2, found) == canProceed1 /\ found

\* The guard without the results of the explicit before hooks.
canProceed_ignoresHooks(canProceed1, canProceed2, found) == canProceed2 /\ found

\* The guard refusing while the context of an earlier, blocked fire is still set.
canProceed_onceBlocked(canProceed1, canProceed2, found) ==
    canProceed1 /\ canProceed2 /\ found /\ _transitionName = ""

\* `if (canProceed1 && canProceed2 && transition)`
canProceed(canProceed1, canProceed2, found) == canProceed1 /\ canProceed2 /\ found

\* The context fields as fire sets them before the guards run.
enterContext(eventName, found, to) ==
    [transitionName |-> eventName, fromState |-> _state,
     toState |-> IF found THEN to ELSE _toState, nextState |-> ""]

\* The guards passed and _nextState left as it was.
setNextState_skipped(ctx, to) == ctx

\* `this._nextState = transition.data.to` once the guards have passed
setNextState(ctx, to) == [ctx EXCEPT !.nextState = to]

\* The test of stateChanged() that passes whatever the environment holds.
traced_always == TRUE

\* `process.env.STATE && process.env.STATE.toLowerCase() === 'show'`, or the
\* same for process.env.state
traced ==
    LET lowered(value) == named([i \in 1..Len(spelling[value]) |-> toLowerCase(spelling[value][i])])
    IN  \/ env.STATE # "" /\ lowered(env.STATE) = "show"
        \/ env.state # "" /\ lowered(env.state) = "show"

\* `this.transitionName() || ''`
orEmpty(x) == IF x = Null THEN "" ELSE x

\* stateChanged(): the call of infoMsg with the text
\* `Transition (${name}) : [${fromState}] -> [${toState}]` and the title
\* STATE CHANGED, when the environment asks for it and infoMsg is a function.
stateChanged(st, ctx) ==
    IF traced /\ isFunction(Lookup("infoMsg"))
    THEN <<Invocation("trace", FALSE, Lookup("infoMsg"), TRUE, st,
                      [transitionName |-> orEmpty(ctx.transitionName),
                       fromState |-> orEmpty(ctx.fromState),
                       toState |-> orEmpty(ctx.toState),
                       nextState |-> ctx.nextState])>>
    ELSE <<>>

\* The context fields as fire leaves them on the committing path.
clearedContext ==
    [transitionName |-> "", fromState |-> "", toState |-> "", nextState |-> ""]

\* ret2 is what the derived-convention before callable returns when it is
\* called, rets[i] what the i-th explicit before hook returns when called.
\* The line that stateChanged() emits goes through infoMsg to log.
fireSteps(eventName, ret2, rets) ==
    /\ UNCHANGED <<registry, hooks>>
    /\ IF ~SetHas(uniqueEvents, eventName)
       THEN /\ hookLog' = <<>>
            /\ UNCHANGED fields
            /\ UNCHANGED logVars
       ELSE LET t     == find(eventName)
                found == t # Undefined
                ctx1  == enterContext(eventName, found, IF found THEN t.to ELSE "")
                beforeHook2 == callDerived("before", before_, eventName, ret2, _state, ctx1)
                canProceed2 == IF beforeHook2 # <<>> THEN ret2 ELSE TRUE
                beforeLog   == phaseLog(beforeHook2,
                                   callBeforeHooks(beforeHooks[eventName], rets, _state, ctx1))
                canProceed1 == everyResult(rets)
            IN  IF canProceed(canProceed1, canProceed2, found)
                THEN LET ctx2 == setNextState(ctx1, t.to)
                         onLog == phaseLog(
                                     callDerived("on", on_, eventName, TRUE, _state, ctx2),
                                     invokeHooks("on", onHooks[eventName], _state, ctx2))
                         ctx3 == [ctx2 EXCEPT !.nextState = ""]
                         traceLog == stateChanged(t.to, ctx3)
                         afterLog == phaseLog(
                                     callDerived("after", after_, eventName, TRUE, t.to, ctx3),
                                     invokeHooks("after", afterHooks[eventName], t.to, ctx3))
                     IN  /\ _state' = t.to
                         /\ _transitionName' = clearedContext.transitionName
                         /\ _fromState' = clearedContext.fromState
                         /\ _toState' = clearedContext.toState
                         /\ _nextState' = clearedContext.nextState
                         /\ hookLog' = fireLog(beforeLog, onLog,
                                                commit(t.to, ctx2) \o traceLog, afterLog)
                         /\ IF traceLog # <<>>
                            THEN emitted < MaxLines /\ logSteps(emitted + 1)
                            ELSE UNCHANGED logVars
                ELSE /\ UNCHANGED _state
                     /\ _transitionName' = ctx1.transitionName
                     /\ _fromState' = ctx1.fromState
                     /\ _toState' = ctx1.toState
                     /\ _nextState' = ctx1.nextState
                     /\ hookLog' = beforeLog
                     /\ UNCHANGED logVars

\* fire() returning at once when no transition of the event starts at the
\* current state.
fire_needsTransition(eventName, ret2, rets) ==
    /\ lastCall' = Call("fire", <<eventName>>, "void")
    /\ IF find(eventName) = Undefined
       THEN /\ hookLog' = <<>>
            /\ UNCHANGED <<fields, registry, hooks>>
            /\ UNCHANGED logVars
       ELSE fireSteps(eventName, ret2, rets)

fire(eventName, ret2, rets) ==
    /\ lastCall' = Call("fire", <<eventName>>, "void")
    /\ fireSteps(eventName, ret2, rets)

\* A callable that raises and whose exception fire swallows.
throwAt_swallowed(steps, k) == steps

\* The steps of a fire that are run when the callable of step k raises: fire
\* has no try/catch, so the exception leaves fire at that step.
throwAt(steps, k) == SubSeq(steps, 1, k)

\* fire(eventName) in which the k-th callable of the on phase (the
\* derived-convention callable, then the explicit hooks) raises.  The
\* exception reaches the caller of fire; the statements of fire after the
\* call are not run.
fireRaising(eventName, ret2, rets, k) ==
    /\ SetHas(uniqueEvents, eventName)
    /\ LET t     == find(eventName)
           found == t # Undefined
           ctx1  == enterContext(eventName, found, IF found THEN t.to ELSE "")
           beforeHook2 == callDerived("before", before_, eventName, ret2, _state, ctx1)
           canProceed2 == IF beforeHook2 # <<>> THEN ret2 ELSE TRUE
           beforeLog   == phaseLog(beforeHook2,
                              callBeforeHooks(beforeHooks[eventName], rets, _state, ctx1))
           canProceed1 == everyResult(rets)
       IN  /\ canProceed(canProceed1, canProceed2, found)
           /\ LET ctx2 == setNextState(ctx1, t.to)
                  onLog == phaseLog(
                              callDerived("on", on_, eventName, TRUE, _state, ctx2),
                              invokeHooks("on", onHooks[eventName], _state, ctx2))
                  ctx3 == [ctx2 EXCEPT !.nextState = ""]
                  afterLog == phaseLog(
                              callDerived("after", after_, eventName, TRUE, t.to, ctx3),
                              invokeHooks("after", afterHooks[eventName], t.to, ctx3))
                  steps == throwAt(fireLog(beforeLog, onLog, commit(t.to, ctx2), afterLog),
                                   Len(beforeLog) + k)
                  last  == steps[Len(steps)]
              IN  /\ k \in 1..Len(onLog)
                  /\ hookLog' = steps
                  /\ _state' = last.state
                  /\ _transitionName' = last.transitionName
                  /\ _fromState' = last.fromState
                  /\ _toState' = last.toState
                  /\ _nextState' = IF last.phase = "commit" THEN "" ELSE last.nextState
    /\ lastCall' = Call("fire", <<eventName>>, "throws")
    /\ UNCHANGED <<registry, hooks>>
    /\ UNCHANGED logVars

\* A call of the own property methodName, `() => this.fire(event)`, that
\* transition() installed.
shortcut(methodName, ret2, rets) ==
    /\ methodName \in DOMAIN shortcuts
    /\ lastCall' = Call("shortcut", <<methodName>>, "void")
    /\ fireSteps(shortcuts[methodName], ret2, rets)

\* ------------------------------------------------------------------------
\* Specification
\* ------------------------------------------------------------------------

Next ==
    \/ \E event \in EventNames, from \in StateNames, to \in StateNames :
           transition(event, from, to)
    \/ \E newState \in SeedArgs : state(newState)
    \/ \E eventName \in HookEvents, callbackOrMethod \in Callbacks("beforeCondense") :
           before(eventName, callbackOrMethod)
    \/ \E eventName \in HookEvents, callbackOrMethod \in Callbacks("onCondense") :
           on(eventName, callbackOrMethod)
    \/ \E eventName \in HookEvents, callbackOrMethod \in Callbacks("afterCondense") :
           after(eventName, callbackOrMethod)
    \/ \E eventName \in EventNames, ret2 \in BOOLEAN :
           \E rets \in [1..Len(beforeHooks[eventName]) -> BOOLEAN] :
               fire(eventName, ret2, rets)

Spec == Init /\ [][Next]_vars

\* The engine with two events and every kind of hook registration under one
\* of them, the hooks registered before or after the event's transition.
NextHooks ==
    \/ \E event \in TraceEvents, from \in StateNames, to \in StateNames :
           transition(event, from, to)
    \/ \E newState \in StateNames : state(newState)
    \/ \E eventName \in HookEvents, callbackOrMethod \in Callbacks("beforeCondense") :
           before(eventName, callbackOrMethod)
    \/ \E eventName \in HookEvents, callbackOrMethod \in Callbacks("onCondense") :
           on(eventName, callbackOrMethod)
    \/ \E eventName \in HookEvents, callbackOrMethod \in Callbacks("afterCondense") :
           after(eventName, callbackOrMethod)
    \/ \E eventName \in TraceEvents, ret2 \in BOOLEAN :
           \E rets \in [1..Len(beforeHooks[eventName]) -> BOOLEAN] :
               fire(eventName, ret2, rets)

SpecHooks == Init /\ [][NextHooks]_vars

\* The engine without explicit hooks: transitions of every event name,
\* seeds of every kind and fires.
NextSeed ==
    \/ \E event \in EventNames, from \in StateNames, to \in StateNames :
           transition(event, from, to)
    \/ \E newState \in SeedArgs : state(newState)
    \/ \E eventName \in EventNames, ret2 \in BOOLEAN :
           \E rets \in [1..Len(beforeHooks[eventName]) -> BOOLEAN] :
               fire(eventName, ret2, rets)

SpecSeed == Init /\ [][NextSeed]_vars

\* The engine with two event names that share a shortcut, called through
\* fire and through the shortcuts.
NextShortcut ==
    \/ \E event \in ShortcutEvents, from \in StateNames, to \in StateNames :
           transition(event, from, to)
    \/ \E newState \in StateNames : state(newState)
    \/ \E eventName \in HookEvents : on(eventName, [kind |-> "function", name |-> "f"])
    \/ \E eventName \in ShortcutEvents, ret2 \in BOOLEAN :
           \E rets \in [1..Len(beforeHooks[eventName]) -> BOOLEAN] :
               fire(eventName, ret2, rets)
    \/ \E methodName \in DOMAIN shortcuts, ret2 \in BOOLEAN :
           \E rets \in [1..Len(beforeHooks[shortcuts[methodName]]) -> BOOLEAN] :
               shortcut(methodName, ret2, rets)

SpecShortcut == Init /\ [][NextShortcut]_vars

\* The registry filled with transitions in any order and listed.
NextRegistry ==
    \/ \E event \in ListEvents, from \in ListStates, to \in ListStates :
           transition(event, from, to)
    \/ states
    \/ events

SpecRegistry == Init /\ [][NextRegistry]_vars

\* The engine in a process whose environment may ask for the trace of
\* state changes, logging to the console or to a file.
NextTrace ==
    \/ \E event \in TraceEvents, from \in StateNames, to \in StateNames :
           transition(event, from, to)
    \/ \E newState \in StateNames : state(newState)
    \/ \E eventName \in TraceEvents, ret2 \in BOOLEAN :
           \E rets \in [1..Len(beforeHooks[eventName]) -> BOOLEAN] :
               fire(eventName, ret2, rets)
    \/ logTo("a.log")
    \/ \E i \in 1..Len(appends) : processLogQueue(i, TRUE)

SpecTrace == InitTrace /\ [][NextTrace]_vars

\* The engine with before hooks under two events, so that a fire of one
\* event can follow a blocked fire of the other.
NextContext ==
    \/ \E event \in TraceEvents, from \in StateNames, to \in StateNames :
           transition(event, from, to)
    \/ \E newState \in StateNames : state(newState)
    \/ \E eventName \in TraceEvents : before(eventName, [kind |-> "function", name |-> "f"])
    \/ \E eventName \in TraceEvents, ret2 \in BOOLEAN :
           \E rets \in [1..Len(beforeHooks[eventName]) -> BOOLEAN] :
               fire(eventName, ret2, rets)

SpecContext == Init /\ [][NextContext]_vars

\* The engine with on and after hooks of which one of the on phase may raise.
NextRaise ==
    \/ \E event \in TraceEvents, from \in StateNames, to \in StateNames :
           transition(event, from, to)
    \/ \E newState \in StateNames : state(newState)
    \/ \E eventName \in HookEvents : on(eventName, [kind |-> "function", name |-> "f"])
    \/ \E eventName \in HookEvents : after(eventName, [kind |-> "function", name |-> "f"])
    \/ \E eventName \in TraceEvents, ret2 \in BOOLEAN :
           \E rets \in [1..Len(beforeHooks[eventName]) -> BOOLEAN] :
               fire(eventName, ret2, rets)
    \/ \E eventName \in TraceEvents, ret2 \in BOOLEAN, k \in 1..(MaxHooks + 1) :
           \E rets \in [1..Len(beforeHooks[eventName]) -> BOOLEAN] :
               fireRaising(eventName, ret2, rets, k)

SpecRaise == Init /\ [][NextRaise]_vars

\* The log queue: logTo and log called in any order, appends settling at any
\* moment between two calls.
NextLog ==
    \/ \E filePath \in LogPaths : logTo(filePath)
    \/ \E data \in 1..MaxLines : log(data)
    \/ \E i \in 1..Len(appends), ok \in BOOLEAN : processLogQueue(i, ok)

SpecLog == Init /\ [][NextLog]_vars

\* The log queue when every append that was started settles, fulfilled or
\* rejected: the promise of fs.promises.appendFile does not stay pending for
\* ever, and the continuation of the awaiting processLogQueue() is then run.
SpecLogFair ==
    SpecLog /\ WF_vars(\E i \in 1..Len(appends), ok \in BOOLEAN : processLogQueue(i, ok))

\* ------------------------------------------------------------------------
\* Properties
\* ------------------------------------------------------------------------

\* The last call was fire(e) / transition(e, _, _) / state(s).
lastFired(e)   == lastCall.op = "fire" /\ lastCall.args = <<e>>
lastDefined(e) == lastCall.op = "transition" /\ lastCall.args[1] = e
lastSeeded(s)  == lastCall.op = "state" /\ lastCall.args = <<s>>

\* The steps of the last call that are invocations of a given phase.
logged(phase) == {i \in 1..Len(hookLog) : hookLog[i].phase = phase}

\* The registered transitions of event e that start at state st, as they
\* were when the last call was made.
startingAt(e, st) ==
    {t \in Range(lastCall.pre.transitions) : t.event = e /\ t.from = st}

\* In the last call the derived-convention before callable, if there is one,
\* returned true.
derivedBeforeTrue ==
    \A i \in logged("before") : hookLog[i].derived => hookLog[i].ret

\* In the last call, fire(e), every explicitly registered before hook of e
\* returned true.
explicitBeforeTrue(e) ==
    /\ \A i \in logged("before") : ~hookLog[i].derived => hookLog[i].ret
    /\ Cardinality({i \in logged("before") : ~hookLog[i].derived})
           = Len(lastCall.pre.beforeHooks[e])

\* C1: for every registered event E, fire(E) sets currentState to T.to if and
\* only if a transition T of E starts at currentState and the
\* derived-convention before callable (true when absent) and every explicit
\* before hook of E return true; in every other case currentState is unchanged.
C1_FireCommitsIffGuardsPass ==
    \A e \in EventNames :
        (lastFired(e) /\ SetHas(lastCall.pre.uniqueEvents, e)) =>
            LET T == startingAt(e, lastCall.pre.state)
            IN  IF T # {} /\ derivedBeforeTrue /\ explicitBeforeTrue(e)
                THEN /\ \A t \in T : _state = t.to
                     /\ logged("commit") # {}
                ELSE /\ _state = lastCall.pre.state
                     /\ logged("commit") = {}

\* A fire of condense that moved the engine, with the derived-convention
\* before callable and an explicit before hook both called.
C1_Witness ==
    /\ lastFired("condense")
    /\ _state # lastCall.pre.state
    /\ \E i, j \in logged("before") : hookLog[i].derived /\ ~hookLog[j].derived

\* C2: if a registered before hook of E returns false, fire(E) leaves
\* currentStateValue() unchanged and invokes no on hook and no after hook,
\* derived or explicit.
C2_GuardBlocksCommit ==
    (lastCall.op = "fire" /\ \E i \in logged("before") : ~hookLog[i].derived /\ ~hookLog[i].ret) =>
        /\ _state = lastCall.pre.state
        /\ logged("on") = {}
        /\ logged("after") = {}
        /\ logged("commit") = {}

\* A fire of condense from the state its transition starts at, with on and
\* after hooks registered, that an explicit before hook blocked.
C2_Witness ==
    /\ lastFired("condense")
    /\ startingAt("condense", lastCall.pre.state) # {}
    /\ \E i \in logged("before") : ~hookLog[i].derived /\ ~hookLog[i].ret
    /\ derivedBeforeTrue
    /\ onHooks["condense"] # <<>> \/ afterHooks["condense"] # <<>>

\* A context accessor reports empty/null.
isEmpty(x) == x = "" \/ x = Null

\* C3: after any fire call returns (committed, blocked by a guard, or without
\* a matching transition), transitionName(), fromState(), toState() and
\* nextState() all report empty/null.
C3_ContextClearedAfterFire ==
    lastCall.op = "fire" =>
        /\ isEmpty(_transitionName)
        /\ isEmpty(_fromState)
        /\ isEmpty(_toState)
        /\ isEmpty(_nextState)

\* The rank of a step of fire in the order before, on, commit, after.
phaseRank(phase) ==
    CASE phase = "before" -> 1 [] phase = "on" -> 2 [] phase = "commit" -> 3 [] phase = "after" -> 4

\* C4: in every fire that commits the phases are strictly ordered: all before
\* hooks finish before any on hook starts, all on hooks finish before
\* currentState is changed, and currentState is changed before any after hook
\* starts.
C4_PhasesOrdered ==
    (lastCall.op = "fire" /\ logged("commit") # {}) =>
        /\ Cardinality(logged("commit")) = 1
        /\ \A i, j \in 1..Len(hookLog) :
               i < j => phaseRank(hookLog[i].phase) <= phaseRank(hookLog[j].phase)
        /\ \A i \in logged("before") \cup logged("on") : hookLog[i].state = lastCall.pre.state
        /\ \A i \in logged("after") : hookLog[i].state = _state

\* A committing fire that moved the engine and called a before, an on and an
\* after callable.
C4_Witness ==
    /\ lastCall.op = "fire"
    /\ _state # lastCall.pre.state
    /\ logged("before") # {} /\ logged("on") # {} /\ logged("after") # {}

\* C5: within each phase of a fire of E the derived-convention callable of
\* that phase, when it exists, is invoked before every explicitly registered
\* hook of that phase.
C5_DerivedBeforeExplicit ==
    lastCall.op = "fire" =>
        \A i, j \in 1..Len(hookLog) :
            (/\ hookLog[i].phase = hookLog[j].phase
             /\ hookLog[i].derived
             /\ ~hookLog[j].derived
             /\ hookLog[j].phase # "commit") => i < j

\* A fire in which a derived-convention callable and an explicit hook of the
\* same phase were both called, in the before phase and in a later phase.
C5_Witness ==
    /\ lastCall.op = "fire"
    /\ \E i, j \in logged("before") : hookLog[i].derived /\ ~hookLog[j].derived
    /\ \E i, j \in logged("on") \cup logged("after") :
           hookLog[i].phase = hookLog[j].phase /\ hookLog[i].derived /\ ~hookLog[j].derived

\* The transition list, the state set and the event set are as they were
\* when the last call was made.
registryUntouched ==
    /\ transitions = lastCall.pre.transitions
    /\ uniqueStates = lastCall.pre.uniqueStates
    /\ uniqueEvents = lastCall.pre.uniqueEvents

\* C6: no event name is carried by more than one registered transition, and
\* a transition() call whose event name is already registered leaves the
\* transition list, the state set and the event set unchanged.
C6_NoDuplicateEvent ==
    /\ \A i, j \in 1..Len(transitions) :
           transitions[i].event = transitions[j].event => i = j
    /\ \A e \in EventNames :
           (lastDefined(e) /\ \E t \in Range(lastCall.pre.transitions) : t.event = e)
               => registryUntouched

\* A transition() call that reused a registered event name with a (from,to)
\* pair no registered transition uses.
C6_Witness ==
    /\ lastCall.op = "transition"
    /\ \E t \in Range(lastCall.pre.transitions) : t.event = lastCall.args[1]
    /\ \A t \in Range(lastCall.pre.transitions) :
           ~(t.from = lastCall.args[2] /\ t.to = lastCall.args[3])

\* C7: a transition() call with a new event name but a (from,to) pair that a
\* registered transition uses is a no-op, so no two registered transitions
\* share a (from,to) pair.
C7_NoDuplicatePair ==
    /\ \A i, j \in 1..Len(transitions) :
           (transitions[i].from = transitions[j].from /\ transitions[i].to = transitions[j].to)
               => i = j
    /\ (/\ lastCall.op = "transition"
        /\ \A t \in Range(lastCall.pre.transitions) : t.event # lastCall.args[1]
        /\ \E t \in Range(lastCall.pre.transitions) :
               t.from = lastCall.args[2] /\ t.to = lastCall.args[3])
           => registryUntouched

\* A transition() call with an unused, unreserved event name and a used
\* (from,to) pair.
C7_Witness ==
    /\ lastCall.op = "transition"
    /\ lastCall.args[1] \notin reservedWords
    /\ \A t \in Range(lastCall.pre.transitions) : t.event # lastCall.args[1]
    /\ \E t \in Range(lastCall.pre.transitions) :
           t.from = lastCall.args[2] /\ t.to = lastCall.args[3]

C9_SeedOnlyOnce ==
    /\ lastCall.pre.state # Null => _state # Null
    /\ \A y \in StateNames :
           (lastSeeded(y) /\ lastCall.pre.state # Null) => _state = lastCall.pre.state

\* state(Y) was called on a seeded engine with a registered state Y other
\* than the current one.
C9_Witness ==
    \E y \in StateNames :
        /\ lastSeeded(y)
        /\ lastCall.pre.state # Null
        /\ SetHas(uniqueStates, y)
        /\ y # lastCall.pre.state

\* C10: state(s) changes currentState only when currentState is null and s
\* is in the state set; a call with s not in the state set leaves
\* currentState unchanged.
C10_SeedNeedsNullAndRegisteredState ==
    \A s \in SeedArgs :
        lastSeeded(s) =>
            /\ _state # lastCall.pre.state =>
                   (lastCall.pre.state = Null /\ SetHas(lastCall.pre.uniqueStates, s) /\ _state = s)
            /\ ~SetHas(lastCall.pre.uniqueStates, s) => _state = lastCall.pre.state

\* state(s) was called on an unseeded engine that has registered states,
\* with a name that is not one of them.
C10_Witness ==
    \E s \in SeedArgs :
        /\ lastSeeded(s)
        /\ lastCall.pre.state = Null
        /\ lastCall.pre.uniqueStates # <<>>
        /\ ~SetHas(lastCall.pre.uniqueStates, s)
        /\ _state = Null

\* C11: state(s) returns null for every argument s and in every engine state,
\* whether or not the seed took effect; it never returns the current or the
\* new state.
C11_SeedAlwaysReturnsNull ==
    \A s \in SeedArgs : lastSeeded(s) => lastCall.ret = Null

\* The four context fields are as they were when the last call was made.
contextUntouched ==
    /\ _transitionName = lastCall.pre.transitionName
    /\ _fromState = lastCall.pre.fromState
    /\ _toState = lastCall.pre.toState
    /\ _nextState = lastCall.pre.nextState

\* C12: fire(e) with e not in the event set is a complete no-op: no hook of
\* any phase is invoked and currentState and the four context fields are
\* unchanged, even when hooks were registered under e.
C12_UnknownEventIsNoOp ==
    \A e \in EventNames :
        (lastFired(e) /\ e \notin Range(lastCall.pre.uniqueEvents)) =>
            /\ hookLog = <<>>
            /\ _state = lastCall.pre.state
            /\ contextUntouched

\* fire("condense") on a seeded engine that has no event condense, with a
\* hook registered under condense and the context of an earlier fire still set.
C12_Witness ==
    /\ lastFired("condense")
    /\ "condense" \notin Range(lastCall.pre.uniqueEvents)
    /\ lastCall.pre.state # Null
    /\ lastCall.pre.transitionName # ""
    /\ beforeHooks["condense"] # <<>> \/ onHooks["condense"] # <<>> \/ afterHooks["condense"] # <<>>

\* C13: for a registered event E whose transition does not start at
\* currentState, fire(E) leaves currentState unchanged and invokes no on or
\* after hook; so when fire(E) has moved the state, an immediately following
\* fire(E) does not move it again.
C13_NoTransitionFromCurrentState ==
    /\ [](\A e \in EventNames :
             (/\ lastFired(e)
              /\ e \in Range(lastCall.pre.uniqueEvents)
              /\ startingAt(e, lastCall.pre.state) = {}) =>
                 /\ _state = lastCall.pre.state
                 /\ logged("on") = {}
                 /\ logged("after") = {}
                 /\ logged("commit") = {})
    /\ [][\A e \in EventNames :
              (/\ lastFired(e)
               /\ _state # lastCall.pre.state
               /\ lastCall'.op = "fire"
               /\ lastCall'.args = <<e>>) => _state' = _state]_vars

\* fire("condense") on a seeded engine that stands at the target of the
\* transition condense, which starts at another state, with an on or after
\* hook registered.
C13_Witness ==
    /\ lastFired("condense")
    /\ "condense" \in Range(lastCall.pre.uniqueEvents)
    /\ lastCall.pre.state # Null
    /\ startingAt("condense", lastCall.pre.state) = {}
    /\ \E t \in Range(transitions) : t.event = "condense" /\ t.to = _state /\ t.from # _state
    /\ onHooks["condense"] # <<>> \/ afterHooks["condense"] # <<>>

\* C14: guards are evaluated afresh on every fire: after a fire(E) that a
\* before hook blocked, a following fire(E) from the same state in which every
\* before hook returns true commits.
C14_GuardsEvaluatedAfresh ==
    [][\A e \in EventNames :
          (/\ lastFired(e)
           /\ startingAt(e, lastCall.pre.state) # {}
           /\ \E i \in logged("before") : ~hookLog[i].ret
           /\ lastCall'.op = "fire"
           /\ lastCall'.args = <<e>>
           /\ \A i \in 1..Len(hookLog') : hookLog'[i].phase = "before" => hookLog'[i].ret) =>
              /\ \A t \in startingAt(e, lastCall.pre.state) : _state' = t.to
              /\ \E i \in 1..Len(hookLog') : hookLog'[i].phase = "commit"]_vars

\* A fire of condense that moved the engine and called an explicit before
\* hook, from a state in which a context left by a blocked fire of condense
\* was still set.
C14_Witness ==
    /\ lastFired("condense")
    /\ _state # lastCall.pre.state
    /\ lastCall.pre.transitionName = "condense"
    /\ lastCall.pre.fromState = lastCall.pre.state
    /\ \E i \in logged("before") : ~hookLog[i].derived

\* The callables of the explicit steps of a phase in the last call, in the
\* order they were called.
explicitCalls(phase) ==
    LET steps == SelectSeq(hookLog, LAMBDA step : step.phase = phase /\ ~step.derived)
    IN  [i \in 1..Len(steps) |-> steps[i].hook]

\* The last call was a call of the shortcut that transition() installed for
\* event e, made when e was a registered event.
lastShortcut(e) ==
    /\ lastCall.op = "shortcut"
    /\ lastCall.args = <<shortcutName[e]>>
    /\ e \in Range(lastCall.pre.uniqueEvents)

\* C15: for every registered event E, at any later point and after any
\* further transition() calls, a call of the shortcut installed for E has the
\* same effect on currentState and on hook invocations as fire(E): it commits
\* the transition of E when one starts at currentState and the before
\* callables return true, leaves currentState as it was otherwise, and every
\* callable it calls sees E as the transition name.
C15_ShortcutEqualsFire ==
    \A e \in ShortcutEvents :
        lastShortcut(e) =>
            LET T == startingAt(e, lastCall.pre.state)
            IN  /\ IF T # {} /\ derivedBeforeTrue /\ explicitBeforeTrue(e)
                   THEN /\ \A t \in T : _state = t.to
                        /\ explicitCalls("on") = lastCall.pre.onHooks[e]
                   ELSE _state = lastCall.pre.state
                /\ \A i \in 1..Len(hookLog) :
                       hookLog[i].phase # "commit" => hookLog[i].transitionName = e

\* The last call was before / on / after (eventName, callbackOrMethod).
lastRegistered == lastCall.op \in {"before", "on", "after"}

\* The prefix of the derived-convention name of a phase.
prefixOf(phase) ==
    CASE phase = "before" -> before_ [] phase = "on" -> on_ [] phase = "after" -> after_

\* The three hook tables are as they were when the last call was made.
hooksUntouched ==
    /\ beforeHooks = lastCall.pre.beforeHooks
    /\ onHooks = lastCall.pre.onHooks
    /\ afterHooks = lastCall.pre.afterHooks

\* The steps of the last call, of a given phase, that called the method of
\* the class with a given name.
loggedMethod(phase, name) ==
    {i \in logged(phase) : hookLog[i].hook.kind = "method" /\ hookLog[i].hook.name = name}

\* C16: for each of the three phases, registering a hook by a name equal to
\* the derived-convention name of the event (beforeE, onE, afterE) leaves the
\* hook tables unchanged, so in a committing fire the derived-convention
\* callable of each phase is invoked exactly once.
C16_ConventionNameNotRegistered ==
    /\ (/\ lastRegistered
        /\ lastCall.args[2].kind = "string"
        /\ lastCall.args[2].name = derivedName[prefixOf(lastCall.op)][lastCall.args[1]])
           => hooksUntouched
    /\ \A e \in EventNames :
           (lastFired(e) /\ logged("commit") # {}) =>
               \A phase \in {"before", "on", "after"} :
                   LET name == derivedName[prefixOf(phase)][e]
                   IN  name \in ClassMethods => Cardinality(loggedMethod(phase, name)) = 1

\* C17: before / on / after called with a name that does not resolve to a
\* callable returns normally and adds no hook: the three hook tables are as
\* they were before the call.
C17_UnresolvedNameAddsNoHook ==
    (/\ lastRegistered
     /\ lastCall.args[2].kind = "string"
     /\ lastCall.args[2].name \notin ClassMethods
     /\ lastCall.args[2].name \notin DOMAIN lastCall.pre.shortcuts) =>
        /\ lastCall.ret = "void"
        /\ hooksUntouched

\* A registration by a name that resolves to nothing, made on an engine that
\* already has a hook in the list the call addresses.
C17_Witness ==
    /\ lastRegistered
    /\ lastCall.args[2] = [kind |-> "string", name |-> "noSuchMethod"]
    /\ \/ lastCall.op = "before" /\ beforeHooks[lastCall.args[1]] # <<>>
       \/ lastCall.op = "on" /\ onHooks[lastCall.args[1]] # <<>>
       \/ lastCall.op = "after" /\ afterHooks[lastCall.args[1]] # <<>>

\* list is old, or old with one callable appended.
appended(old, list) ==
    \/ list = old
    \/ Len(list) = Len(old) + 1 /\ SubSeq(list, 1, Len(old)) = old

\* C18: the explicit hooks of one event and one phase are invoked in
\* registration order, each exactly once per committing fire; the lists are
\* append-only, never reordered or de-duplicated, so a callable registered
\* twice is invoked twice.
C18_HooksInRegistrationOrder ==
    /\ \A e \in EventNames :
           (lastFired(e) /\ logged("commit") # {}) =>
               /\ explicitCalls("before") = lastCall.pre.beforeHooks[e]
               /\ explicitCalls("on") = lastCall.pre.onHooks[e]
               /\ explicitCalls("after") = lastCall.pre.afterHooks[e]
    /\ \A e \in EventNames :
           /\ appended(lastCall.pre.beforeHooks[e], beforeHooks[e])
           /\ appended(lastCall.pre.onHooks[e], onHooks[e])
           /\ appended(lastCall.pre.afterHooks[e], afterHooks[e])

\* A committing fire of condense with two different callables in one list
\* of explicit hooks.
C18_Witness ==
    /\ lastFired("condense")
    /\ logged("commit") # {}
    /\ \E list \in {beforeHooks["condense"], onHooks["condense"], afterHooks["condense"]} :
           Len(list) = 2 /\ list[1] # list[2]

\* A committing fire of condense with the same callable twice in one list of
\* explicit hooks.
C18_WitnessTwice ==
    /\ lastFired("condense")
    /\ logged("commit") # {}
    /\ \E list \in {beforeHooks["condense"], onHooks["condense"], afterHooks["condense"]} :
           Len(list) = 2 /\ list[1] = list[2]

\* C19: at most one processLogQueue() is running at any time, under every
\* interleaving of log calls with the settling of appends: a log call made
\* while one is running starts no second one.  Each running
\* processLogQueue() awaits one append of `appends`.
C19_SingleDrain ==
    /\ [](Len(appends) <= 1)
    /\ [](appends # <<>> => writing)
    /\ [][(appends # <<>> /\ emitted' # emitted) => Len(appends') = Len(appends)]_vars

\* A log call was made while a processLogQueue() was running: a message
\* waits in the queue behind the append in flight.
C19_Witness ==
    /\ Len(appends) = 1
    /\ logQueue # <<>>
    /\ writing

\* C20: with a file set, the lines appended to a file appear in the order in
\* which they were handed to log (FIFO), for every interleaving of log calls
\* and settling appends; no line is appended twice and no two appends are in
\* flight at once.
C20_FifoSink ==
    /\ Len(appends) <= 1
    /\ \A path \in FilePaths :
           \A i, j \in 1..Len(files[path]) : i < j => files[path][i] < files[path][j]
    /\ \A path, other \in FilePaths :
           \A i \in 1..Len(files[path]), j \in 1..Len(files[other]) :
               files[path][i] = files[other][j] => (path = other /\ i = j)

\* Three lines are in one file, no append failed and no processLogQueue()
\* is running any more.
C20_Witness ==
    \E path \in FilePaths :
        /\ Len(files[path]) = 3
        /\ errors = <<>>
        /\ appends = <<>>

\* The number of places of a sequence that hold x.
count(seq, x) == Cardinality({i \in 1..Len(seq) : seq[i] = x})

\* The messages of the appends in flight.
inFlight == [i \in 1..Len(appends) |-> appends[i].message]

\* The number of times line d has been handed to appendFile so far.
attempts(d) ==
    count(inFlight, d) + count(errors, d) + count(files["a.log"], d) + count(files["b.log"], d)

\* C21: with a file set and every append settling in the end (fulfilled or
\* rejected), every line handed to log is taken from the queue and handed to
\* appendFile exactly once, and the running processLogQueue() ends with the
\* queue empty and writing cleared.
C21_DrainTerminates ==
    /\ [](\A d \in 1..emitted : count(logQueue, d) + attempts(d) + count(console, d) = 1)
    /\ \A d \in 1..MaxLines :
           (count(logQueue, d) = 1) ~> (attempts(d) = 1 /\ count(inFlight, d) = 0)
    /\ writing ~> (~writing /\ logQueue = <<>> /\ appends = <<>>)

\* Three lines were handed to log while a file was set; one append failed,
\* the others reached the file, and the drain has ended.
C21_Witness ==
    /\ emitted = 3
    /\ console = <<>>
    /\ Len(errors) = 1
    /\ ~writing /\ logQueue = <<>> /\ appends = <<>>

\* A step in which the append in flight settles rejected: the awaiting
\* processLogQueue() moves on and no file takes a line.
appendFails ==
    /\ appends # <<>>
    /\ appends' # appends
    /\ emitted' = emitted
    /\ files' = files

\* C22: when an append fails, the failure is reported with console.error, the
\* failed line is not retried and never reaches a file, and the
\* processLogQueue() goes on with the next queued line; log itself raises
\* nothing.
C22_FailedAppendReportedNotRetried ==
    /\ [][appendFails =>
             LET failed == appends[1].message
             IN  /\ errors' = Append(errors, failed)
                 /\ count(logQueue', failed) = 0
                 /\ \A i \in 1..Len(appends') : appends'[i].message # failed
                 /\ IF logQueue # <<>>
                    THEN /\ Len(appends') = 1
                         /\ appends'[1].message = Head(logQueue)
                         /\ logQueue' = Tail(logQueue)
                         /\ writing'
                    ELSE appends' = <<>> /\ ~writing']_vars
    /\ [](\A i \in 1..Len(errors) :
             count(files["a.log"], errors[i]) + count(files["b.log"], errors[i]) = 0)

\* An append failed and a line handed to log after the failed one is in a
\* file.
C22_Witness ==
    /\ errors # <<>>
    /\ \E path \in FilePaths :
           files[path] # <<>> /\ files[path][1] > errors[1]

\* A step that is a log call made while a file is set / while none is set.
logsToFile == emitted' # emitted /\ logFileLocation # ""
logsToConsole == emitted' # emitted /\ logFileLocation = ""

\* C23: log never waits for the file: with a file set, log can be called and
\* returns in every state, also while an append is in flight, and when it
\* returns the line is in the queue or in flight and no append has settled
\* during the call.
C23_EmitNeverWaits ==
    /\ [](emitted < MaxLines => ENABLED log(emitted + 1))
    /\ [][logsToFile =>
             /\ count(logQueue', emitted') + Cardinality({i \in 1..Len(appends') :
                                                 appends'[i].message = emitted'}) = 1
             /\ files' = files
             /\ errors' = errors
             /\ console' = console]_vars

\* The line handed to log last waits in the queue while the append of an
\* earlier line is in flight.
C23_Witness ==
    /\ logFileLocation # ""
    /\ appends # <<>>
    /\ logQueue # <<>>
    /\ logQueue[Len(logQueue)] = emitted

\* C24 as stated: with no file set, log writes the line to the console and
\* leaves the queue empty and writing false.  The line handed to log last is
\* the last line of the console exactly when that call found no file set,
\* and between that call and now the queue cannot have grown and writing
\* cannot have been set.
C24_NoSinkLeavesQueueEmpty ==
    (console # <<>> /\ console[Len(console)] = emitted) =>
        (logQueue = <<>> /\ ~writing)

\* C24, amended: with no file set, log writes the line to the console,
\* leaves the queue, writing and the appends in flight as they were and
\* starts no processLogQueue(); the queue is empty and writing is false as
\* long as logTo has never been called.
C24_NoSinkWritesToConsole ==
    /\ [][logsToConsole =>
             /\ console' = Append(console, emitted')
             /\ logQueue' = logQueue
             /\ writing' = writing
             /\ appends' = appends
             /\ files' = files
             /\ errors' = errors]_vars
    /\ [](useColor => (logQueue = <<>> /\ ~writing /\ appends = <<>>))

\* A line went to the console while an earlier line was waiting in the
\* queue behind an append in flight: the path had been set back to ''.
C24_Witness ==
    /\ console # <<>>
    /\ console[Len(console)] = emitted
    /\ logQueue # <<>>
    /\ appends # <<>>

\* C25: colour is on in a fresh instance and logTo turns it off for good:
\* once off it is never on again, every logTo call leaves it off, and in
\* every reachable state a file path that is set implies colour is off.
C25_ColourOffOnceSinkSet ==
    /\ useColor = TRUE
    /\ [][~useColor => ~useColor']_vars
    /\ [][(logFileLocation' # logFileLocation \/ useColor' # useColor) => ~useColor']_vars
    /\ [](logFileLocation # "" => ~useColor)

\* A line was handed to log after logTo had set a file, and a later logTo
\* set the path back to ''; colour is off.
C25_Witness ==
    /\ ~useColor
    /\ logFileLocation = ""
    /\ emitted > 0
    /\ console = <<>>

\* C26: in every reachable state every state name that is the from or the to
\* of a registered transition is in the state set, the state set holds
\* nothing else, and every event name of the event set is the event of at
\* least one registered transition.
C26_RegistryConsistent ==
    /\ \A t \in Range(transitions) :
           t.from \in Range(uniqueStates) /\ t.to \in Range(uniqueStates)
    /\ \A s \in Range(uniqueStates) :
           \E t \in Range(transitions) : t.from = s \/ t.to = s
    /\ \A e \in Range(uniqueEvents) :
           \E t \in Range(transitions) : t.event = e
    /\ \A i, j \in 1..Len(uniqueStates) : uniqueStates[i] = uniqueStates[j] => i = j
    /\ \A i, j \in 1..Len(uniqueEvents) : uniqueEvents[i] = uniqueEvents[j] => i = j

\* Two transitions that share a state are registered, and the last call was
\* a transition() that was refused.
C26_Witness ==
    /\ Len(transitions) = 2
    /\ Len(uniqueStates) = 2
    /\ transitions[1].from # transitions[1].to
    /\ lastCall.op = "transition"
    /\ lastCall.args[1] # "default"
    /\ registryUntouched

\* C27: the registry only grows: across every call the transition list keeps
\* the entries it had, unchanged and in order, and the state set and the
\* event set lose no element.
C27_RegistryOnlyGrows ==
    /\ Len(transitions) >= Len(lastCall.pre.transitions)
    /\ SubSeq(transitions, 1, Len(lastCall.pre.transitions)) = lastCall.pre.transitions
    /\ Range(lastCall.pre.uniqueStates) \subseteq Range(uniqueStates)
    /\ Range(lastCall.pre.uniqueEvents) \subseteq Range(uniqueEvents)

\* A transition() call added a second transition and a state to a registry
\* that held one transition.
C27_Witness ==
    /\ lastCall.op = "transition"
    /\ Len(lastCall.pre.transitions) = 1
    /\ Len(transitions) = 2
    /\ Len(uniqueStates) > Len(lastCall.pre.uniqueStates)

\* C29: in every reachable state _state is null or a member of the state
\* set; it is null in a fresh engine.
C29_StateNullOrRegistered ==
    /\ _state = Null \/ _state \in Range(uniqueStates)
    /\ lastCall.op = "new" => _state = Null

\* A fire moved a seeded engine from one registered state to the other.
C29_Witness ==
    /\ lastCall.op = "fire"
    /\ lastCall.pre.state # Null
    /\ _state # lastCall.pre.state
    /\ Len(uniqueStates) = 2

\* ret holds exactly the names of set, each once, in ascending order.
sortedListOf(ret, set) ==
    /\ Range(ret) = Range(set)
    /\ Len(ret) = Cardinality(Range(set))
    /\ \A i, j \in 1..Len(ret) :
           i < j => lessThan(spelling[ret[i]], spelling[ret[j]])

\* C28: states() returns exactly the registered state names and events()
\* exactly the registered event names, each name once and in ascending
\* lexicographic order, whatever the order in which the transitions were
\* defined.
C28_ListsSorted ==
    /\ lastCall.op = "states" => sortedListOf(lastCall.ret, lastCall.pre.uniqueStates)
    /\ lastCall.op = "events" => sortedListOf(lastCall.ret, lastCall.pre.uniqueEvents)

\* states() or events() was called on a registry of three names that were
\* not added in ascending order.
C28_Witness ==
    \/ /\ lastCall.op = "states"
       /\ Len(uniqueStates) = 3
       /\ lastCall.ret # uniqueStates
    \/ /\ lastCall.op = "events"
       /\ Len(uniqueEvents) = 3
       /\ lastCall.ret # uniqueEvents

\* The last call committed a transition: it assigned to _state.
committed == logged("commit") # {}

\* Line d was handed to log and is on the console, in the queue, in an
\* append in flight, reported as failed or in a file.
lineEmitted(d) ==
    count(console, d) + count(logQueue, d) + attempts(d) = 1

\* C30: with STATE or state equal to "show", a fire that commits makes
\* exactly one call of infoMsg, after the assignment to _state, whose text
\* names the event fired, the state before the fire as from and the state
\* after the fire as to, and log receives exactly one line; a fire that does
\* not commit makes no such call and log receives no line; with neither
\* variable set no fire does.
C30_TraceLinePerCommit ==
    \A e \in TraceEvents :
        lastFired(e) =>
            LET show  == env.STATE = "show" \/ env.state = "show"
                unset == env.STATE = "" /\ env.state = ""
            IN  /\ (show /\ committed) =>
                       /\ Cardinality(logged("trace")) = 1
                       /\ emitted = lastCall.pre.emitted + 1
                       /\ lineEmitted(emitted)
                       /\ \A i \in logged("trace") :
                              /\ hookLog[i].hook = [kind |-> "method", name |-> "infoMsg"]
                              /\ hookLog[i].transitionName = e
                              /\ hookLog[i].fromState = lastCall.pre.state
                              /\ hookLog[i].toState = _state
                              /\ \E j \in logged("commit") : j < i
                /\ (~committed \/ unset) =>
                       /\ logged("trace") = {}
                       /\ emitted = lastCall.pre.emitted

\* With STATE set to show, a second fire committed a transition between two
\* different states and emitted the second line.
C30_Witness ==
    /\ env.STATE = "show"
    /\ lastFired("condense")
    /\ committed
    /\ logged("trace") # {}
    /\ _state # lastCall.pre.state
    /\ emitted = 2

\* With neither variable set, a fire committed a transition.
C30_WitnessUnset ==
    /\ env.STATE = "" /\ env.state = ""
    /\ lastFired("condense")
    /\ committed
    /\ _state # lastCall.pre.state

\* The steps of the last call that called an explicit before hook, in order.
explicitBeforeSteps ==
    SelectSeq(hookLog, LAMBDA step : step.phase = "before" /\ ~step.derived)

\* In the last call, fire(e), the explicit before hooks of e were called in
\* registration order up to and including the first that returned false, or
\* all of them when none returned false.
calledUntilFirstFalse(e) ==
    LET steps == explicitBeforeSteps
        list  == lastCall.pre.beforeHooks[e]
    IN  /\ Len(steps) <= Len(list)
        /\ \A i \in 1..Len(steps) : steps[i].hook = list[i]
        /\ \A i \in 1..(Len(steps) - 1) : steps[i].ret
        /\ Len(steps) < Len(list) => ~steps[Len(steps)].ret

\* C31: on every fire of a registered event, all the explicitly registered
\* before hooks of the event are invoked, in registration order, also when
\* an earlier before hook or the derived-convention before callable has
\* returned false.
C31_AllBeforeHooksInvoked ==
    \A e \in EventNames :
        (lastFired(e) /\ e \in Range(lastCall.pre.uniqueEvents)) =>
            explicitCalls("before") = lastCall.pre.beforeHooks[e]

\* C31, amended: on every fire of a registered event the explicit before
\* hooks of the event are invoked in registration order up to and including
\* the first that returns false, and the hooks registered after that one are
\* not invoked; what the derived-convention before callable returned makes
\* no difference to them.
C31_BeforeHooksUntilFirstFalse ==
    \A e \in EventNames :
        (lastFired(e) /\ e \in Range(lastCall.pre.uniqueEvents)) =>
            /\ calledUntilFirstFalse(e)
            /\ Len(lastCall.pre.beforeHooks[e]) > 0 => explicitBeforeSteps # <<>>

\* The first of two explicit before hooks of condense returned false and the
\* second was not called.
C31_Witness ==
    /\ lastFired("condense")
    /\ Len(lastCall.pre.beforeHooks["condense"]) = 2
    /\ Len(explicitBeforeSteps) = 1
    /\ ~explicitBeforeSteps[1].ret

\* The derived-convention before callable returned false and two explicit
\* before hooks were called after it.
C31_WitnessDerivedFalse ==
    /\ lastFired("condense")
    /\ \E i \in logged("before") : hookLog[i].derived /\ ~hookLog[i].ret
    /\ Len(explicitBeforeSteps) = 2

\* C32: in a committing fire of a transition from F to T, every on hook
\* observes state() = F and nextState() = T, every after hook observes
\* state() = T and nextState() empty, and every before hook observes
\* nextState() empty.
C32_HooksObserveStateAndNext ==
    \A e \in EventNames :
        (lastFired(e) /\ committed) =>
            \E t \in startingAt(e, lastCall.pre.state) :
                /\ _state = t.to
                /\ \A i \in logged("before") : hookLog[i].nextState = ""
                /\ \A i \in logged("on") :
                       hookLog[i].state = t.from /\ hookLog[i].nextState = t.to
                /\ \A i \in logged("after") :
                       hookLog[i].state = t.to /\ hookLog[i].nextState = ""

\* A fire committed a transition between two different states and called a
\* before, an on and an after callable.
C32_Witness ==
    /\ lastFired("condense")
    /\ committed
    /\ _state # lastCall.pre.state
    /\ logged("before") # {}
    /\ logged("on") # {}
    /\ logged("after") # {}

\* C33: for every registered event E, fire(E) invokes the derived-convention
\* before callable and the explicit before hooks of E also when no
\* transition of E starts at the current state, and also while the current
\* state is still null: the before phase is the one of a fire that finds a
\* transition.
C33_BeforePhaseWithoutTransition ==
    \A e \in EventNames :
        (/\ lastFired(e)
         /\ e \in Range(lastCall.pre.uniqueEvents)
         /\ startingAt(e, lastCall.pre.state) = {}) =>
            /\ isFunction(Lookup(derivedName[before_][e])) =>
                   Cardinality({i \in logged("before") : hookLog[i].derived}) = 1
            /\ calledUntilFirstFalse(e)
            /\ Len(lastCall.pre.beforeHooks[e]) > 0 => explicitBeforeSteps # <<>>

\* A fire of condense on an engine that was never seeded called the derived
\* before callable and two explicit before hooks.
C33_Witness ==
    /\ lastFired("condense")
    /\ "condense" \in Range(lastCall.pre.uniqueEvents)
    /\ lastCall.pre.state = Null
    /\ \E i \in logged("before") : hookLog[i].derived
    /\ Len(explicitBeforeSteps) = 2

\* A fire of condense on a seeded engine with no transition of condense from
\* the current state called an explicit before hook.
C33_WitnessSeeded ==
    /\ lastFired("condense")
    /\ "condense" \in Range(lastCall.pre.uniqueEvents)
    /\ lastCall.pre.state # Null
    /\ startingAt("condense", lastCall.pre.state) = {}
    /\ explicitBeforeSteps # <<>>

\* C34: whenever a callable runs during fire(E), toState() is either empty or
\* the target of the transition of E from the state the fire started in; it
\* is never a value left by an earlier fire of another event.
C34_ToStateEmptyOrTarget ==
    \A e \in TraceEvents :
        lastFired(e) =>
            \A i \in logged("before") \cup logged("on") \cup logged("after") :
                \/ hookLog[i].toState = ""
                \/ \E t \in startingAt(e, lastCall.pre.state) : hookLog[i].toState = t.to

\* C35: whenever no processLogQueue() is running between two operations
\* (writing is false), the log queue is empty: no line stays queued without
\* a running processLogQueue() that will take it.
C35_QueueEmptyWhenIdle ==
    ~writing => logQueue = <<>>

\* Two lines were handed to log with a file set, both were handed to
\* appendFile, and the processLogQueue() that took the second has finished:
\* writing is false again.
C35_Witness ==
    /\ ~writing
    /\ emitted >= 2
    /\ console = <<>>
    /\ attempts(1) = 1
    /\ attempts(2) = 1
    /\ lastCall.op = "log"
    /\ lastCall.args = <<2>>

\* C36: every line handed to log with a file set is appended to the file
\* that was set at the moment of that log call, also when logTo is called
\* again while the line is still queued or its append is in flight.
C36_AppendedToSinkAtEmission ==
    /\ \A i \in 1..Len(appends) : appends[i].path = sinkAt[appends[i].message]
    /\ \A path \in FilePaths :
           \A i \in 1..Len(files[path]) : sinkAt[files[path][i]] = path

\* C37: installing the shortcut of a newly registered event replaces no
\* property that the instance already had: after transition(event, _, _)
\* with an event name outside the reserved words, every shortcut installed
\* earlier still fires the event it was installed for, and no method of the
\* class is shadowed by the new own property.
C37_ShortcutInstallReplacesNothing ==
    lastCall.op = "transition" =>
        /\ \A m \in DOMAIN lastCall.pre.shortcuts :
               m \in DOMAIN shortcuts /\ shortcuts[m] = lastCall.pre.shortcuts[m]
        /\ \A m \in DOMAIN shortcuts : m \notin ClassMethods \cup {"infoMsg"}

\* The hook table that the last call, a registration, is about, now and as
\* it was when the call was made.
tableOf(op)    == CASE op = "before" -> beforeHooks [] op = "on" -> onHooks [] op = "after" -> afterHooks
tableBefore(op) ==
    CASE op = "before" -> lastCall.pre.beforeHooks
      [] op = "on"     -> lastCall.pre.onHooks
      [] op = "after"  -> lastCall.pre.afterHooks

\* C38: before(), on() and after() leave the current state, the context, the
\* transition list, the state set and the event set unchanged; they accept
\* an event name that no transition carries yet, appending the callable to
\* the list of that event, and the hooks of the list are the ones a later
\* committing fire of the event calls.
C38_RegistrationLeavesEngineAlone ==
    /\ lastRegistered =>
           /\ _state = lastCall.pre.state
           /\ contextUntouched
           /\ registryUntouched
           /\ shortcuts = lastCall.pre.shortcuts
    /\ (/\ lastRegistered
        /\ lastCall.args[1] \notin Range(lastCall.pre.uniqueEvents)
        /\ lastCall.args[2].kind = "function") =>
           tableOf(lastCall.op)[lastCall.args[1]]
               = Append(tableBefore(lastCall.op)[lastCall.args[1]], lastCall.args[2])
    /\ \A e \in EventNames :
           (lastDefined(e) /\ e \notin Range(lastCall.pre.uniqueEvents)) => hooksUntouched
    /\ \A e \in EventNames :
           (lastFired(e) /\ committed) =>
               /\ explicitCalls("before") = beforeHooks[e]
               /\ explicitCalls("on") = onHooks[e]
               /\ explicitCalls("after") = afterHooks[e]

\* A function was registered as a before hook of condense on a seeded engine
\* before any transition of condense was defined.
C38_Witness ==
    /\ lastCall.op = "before"
    /\ lastCall.args[2].kind = "function"
    /\ "condense" \notin Range(uniqueEvents)
    /\ beforeHooks["condense"] # lastCall.pre.beforeHooks["condense"]
    /\ _state # Null

\* The transition that defines condense was registered when hooks of condense
\* were already in the lists.
C38_WitnessDefinedLater ==
    /\ lastDefined("condense")
    /\ "condense" \notin Range(lastCall.pre.uniqueEvents)
    /\ "condense" \in Range(uniqueEvents)
    /\ beforeHooks["condense"] # <<>>
    /\ onHooks["condense"] # <<>>

\* C39: once the current state is not null it never becomes null again: no
\* call of fire, state, transition, before, on or after takes a seeded
\* engine back to the unseeded state.
C39_NeverNullAgain ==
    lastCall.pre.state # Null => _state # Null

\* A fire on a seeded engine committed a transition to another state.
C39_Witness ==
    /\ lastCall.pre.state # Null
    /\ lastFired("condense")
    /\ committed
    /\ _state # lastCall.pre.state

\* On a seeded engine on which a fire was blocked before, state() was called
\* with another registered state name.
C39_WitnessReseed ==
    /\ lastCall.pre.state # Null
    /\ lastCall.op = "state"
    /\ lastCall.args[1] \in Range(uniqueStates) \ {lastCall.pre.state}
    /\ _toState # ""

\* The last call was a fire(e) that a raising callable left.
lastRaised(e) == lastFired(e) /\ lastCall.ret = "throws"

\* C40: if a callable of the on phase raises during fire(E), the fire stops
\* there without committing: the current state is the state the fire
\* started in, no after callable is invoked, and nothing done before the
\* raise is undone: the before callables and the earlier on callables have
\* run and the context fields keep what fire assigned to them.
C40_RaisingOnHookStopsFire ==
    \A e \in TraceEvents :
        lastRaised(e) =>
            /\ _state = lastCall.pre.state
            /\ logged("commit") = {}
            /\ logged("after") = {}
            /\ logged("trace") = {}
            /\ hookLog # <<>>
            /\ hookLog[Len(hookLog)].phase = "on"
            /\ \A i \in 1..Len(hookLog) : hookLog[i].state = lastCall.pre.state
            /\ isFunction(Lookup(derivedName[before_][e])) =>
                   \E i \in logged("before") : hookLog[i].derived
            /\ explicitCalls("before") = beforeHooks[e]
            /\ explicitCalls("on") = SubSeq(onHooks[e], 1, Len(explicitCalls("on")))
            /\ \E t \in startingAt(e, lastCall.pre.state) :
                   /\ _transitionName = e
                   /\ _fromState = lastCall.pre.state
                   /\ _toState = t.to
                   /\ _nextState = t.to

\* The second callable of the on phase of condense raised in a fire that
\* would have moved the engine to another state and called an after hook.
C40_Witness ==
    /\ lastRaised("condense")
    /\ Cardinality(logged("on")) = 2
    /\ afterHooks["condense"] # <<>>
    /\ _toState # _state

====
